---- MODULE Spec2Model ----
(***************************************************************************)
(* The lazily initialised compiled regex of src/main.rs: a static          *)
(* Lazy(Cell<Option<Regex>>, Once) that CompiledRegex::deref initialises   *)
(* through Once::call_once and then reads through a raw pointer.           *)
(*                                                                         *)
(* Thread Main runs fn main; the other threads are callers that            *)
(* dereference the same static concurrently (as the test functions of      *)
(* benches/lib.rs do under the threaded test harness).  Every step of      *)
(* deref that touches shared state is one action.                          *)
(*                                                                         *)
(* A second program, benches/lib.rs, has four lazy statics that the test   *)
(* and bench functions dereference from the harness threads (BenchSpec).   *)
(***************************************************************************)
EXTENDS Integers, Sequences, FiniteSets, TLC

\* ------------------------------------------------------------------ bounds
\* Number of caller threads besides the main thread.
NWorkers == 2
\* Dereferences a caller thread makes at most.
MaxCalls == 1
\* benches: number of harness threads, and function calls they make at most,
\* all together.
NTesters == 2
MaxFnCalls == 3

\* ---------------------------------------------------------- program constants
\* fn main dereferences COMPILED_REGEX twice (the two is_match calls).
MainCalls == 2

Main == 0
Workers == 1..NWorkers
Threads == {Main} \cup Workers
\* benches: the harness threads that run functions.
Testers == 1..NTesters
NoThread == 0 - 1

\* The sum of f over the set S.
RECURSIVE SumOver(_, _)
SumOver(f, S) ==
    IF S = {} THEN 0
    ELSE LET x == CHOOSE y \in S : TRUE IN f[x] + SumOver(f, S \ {x})

\* ------------------------------------------------------------------ values
\* Option<Regex>: None, Some(v), and a slot caught in the middle of Cell::set.
\* A Regex is identified by the number of the Regex::new call that built it.
NoneV == [tag |-> "None", val |-> 0]
Torn == [tag |-> "Torn", val |-> 0]
Some(v) == [tag |-> "Some", val |-> v]
IsSome(o) == o.tag = "Some"
\* What a read of a torn slot may hand back: a reference to garbage.
Garbage == Some(0)

\* The states of std::sync::Once.
GateStates == {"NotStarted", "Running", "Done", "Poisoned"}

\* The ways a thread can end in a panic: the unwrap of Regex::new inside the
\* closure, call_once on a poisoned Once, and the None arm of deref's match.
PanicInit == "panicked_init"
PanicPoisoned == "panicked_poisoned"
PanicUninit == "panicked_uninit"
Panicked == {PanicInit, PanicPoisoned, PanicUninit}

VARIABLES
    gate,       \* LAZY.1: the Once
    slot,       \* LAZY.0: the Cell<Option<Regex>>
    compileOk,  \* whether Regex::new(LONG_REGEX) returns Ok
    pc,         \* each thread's position
    calls,      \* dereferences each thread has completed
    tmp,        \* the Regex a thread's closure has built and not yet stored
    ret,        \* the reference each thread's last completed deref returned
    entered,    \* the gate as it was when the thread's current deref began
    printed,    \* lines written to stdout, counted per kind
    initCount,  \* executions of Regex::new(LONG_REGEX) so far
    winner,     \* the thread whose call_once took the gate
    writers,    \* the threads that stored into the slot, in order
    reentrant,  \* whether the initializer dereferences the cell it initializes
    nested,     \* the threads inside a deref made from their own closure
    gates,      \* benches: the Once of each lazy static
    slots,      \* benches: the Cell<Option<Regex>> of each lazy static
    counts,     \* benches: executions of each lazy static's initializer
    fn,         \* benches: the function each thread is running
    step        \* benches: the operation of that function the thread is at

vars == <<gate, slot, compileOk, pc, calls, tmp, ret, entered, printed,
          initCount, winner, writers, reentrant, nested,
          gates, slots, counts, fn, step>>

\* ------------------------------------------------- the statics of benches
\* The lazily initialised statics of benches/lib.rs and its modules.
CompiledRegex == "COMPILED_REGEX"
OnceCellRegex == "COMPILED_REGEX_ONCE_CELL"
InnerRegex == "COMPILED_REGEX_INNER"
OuterRegex == "COMPILED_REGEX_OUTER"
Cells == {CompiledRegex, OnceCellRegex, InnerRegex, OuterRegex}

CellNo(c) ==
    CASE c = CompiledRegex -> 1
      [] c = OnceCellRegex -> 2
      [] c = InnerRegex -> 3
      [] c = OuterRegex -> 4

\* The Regex that the k-th run of cell c's initializer builds.  The numbers of
\* different cells' values are kept apart.
RegexId(c, k) == CellNo(c) * (Cardinality(Cells) + 1) + k

\* The test and bench functions that use a lazy static, each with the
\* operations one call of it makes, in order.
NoFn == "none"
Fns == {"lazy_static_local", "once_cell_lazy", "lazy_static_inner",
        "lazy_static_external_mod", "lazy_static_backref",
        "lazy_static_reinit"}

DerefOf(c) == [kind |-> "deref", cell |-> c]
InitializeOf(c) == [kind |-> "initialize", cell |-> c]

\* Variant of Body: super::COMPILED_REGEX in external_mod resolves to the
\* module's own static instead of the root's.
BodyBackrefOwnStatic(f) ==
    CASE f = "lazy_static_local" -> <<DerefOf(CompiledRegex)>>
      [] f = "once_cell_lazy" -> <<DerefOf(OnceCellRegex)>>
      [] f = "lazy_static_inner" -> <<DerefOf(InnerRegex)>>
      [] f = "lazy_static_external_mod" -> <<DerefOf(OuterRegex)>>
      [] f = "lazy_static_backref" -> <<DerefOf(OuterRegex)>>
      [] f = "lazy_static_reinit" ->
           <<InitializeOf(CompiledRegex), DerefOf(CompiledRegex)>>

Body(f) ==
    CASE f = "lazy_static_local" -> <<DerefOf(CompiledRegex)>>
      [] f = "once_cell_lazy" -> <<DerefOf(OnceCellRegex)>>
      [] f = "lazy_static_inner" -> <<DerefOf(InnerRegex)>>
      [] f = "lazy_static_external_mod" -> <<DerefOf(OuterRegex)>>
      [] f = "lazy_static_backref" -> <<DerefOf(CompiledRegex)>>
      [] f = "lazy_static_reinit" ->
           <<InitializeOf(CompiledRegex), DerefOf(CompiledRegex)>>

\* The statics of benches as the program starts, with none of the threads T
\* running a function.
BenchStaticsFor(T) ==
    /\ gates = [c \in Cells |-> "NotStarted"]
    /\ slots = [c \in Cells |-> NoneV]
    /\ counts = [c \in Cells |-> 0]
    /\ fn = [t \in T |-> NoFn]
    /\ step = [t \in T |-> 0]

\* src/main.rs has no harness threads.
BenchStatics == BenchStaticsFor({})

benchVars == <<gates, slots, counts, fn, step>>

\* What a step of a plain deref of LAZY leaves alone.
elsewhere == <<reentrant, nested, benchVars>>

\* The initializer of src/main.rs, regex::Regex::new(LONG_REGEX).unwrap(),
\* does not dereference COMPILED_REGEX.
PlainInitializer ==
    /\ reentrant = FALSE
    /\ nested = {}

\* Dereferences thread t makes at most.
Quota(t) == IF t = Main THEN MainCalls ELSE MaxCalls

\* The positions inside deref.
InDeref == {"call_once", "wait", "closure", "set", "setting", "println",
            "complete", "read"}

\* Variant of Init: the static is built eagerly, before main runs.
InitEager ==
    /\ gate = "Done"
    /\ slot = Some(1)
    /\ compileOk = TRUE
    /\ pc = [t \in Threads |-> IF t = Main THEN "start" ELSE "idle"]
    /\ calls = [t \in Threads |-> 0]
    /\ tmp = [t \in Threads |-> NoneV]
    /\ ret = [t \in Threads |-> NoneV]
    /\ entered = [t \in Threads |-> "NotStarted"]
    /\ printed = [started |-> 0, deref |-> 0, init |-> 1, result |-> 0]
    /\ initCount = 1
    /\ winner = Main
    /\ writers = <<Main>>
    /\ PlainInitializer
    /\ BenchStatics

\* static LAZY = Lazy(Cell::new(None), Once::new()); no thread has run.
Init ==
    /\ gate = "NotStarted"
    /\ slot = NoneV
    /\ compileOk \in BOOLEAN
    /\ pc = [t \in Threads |-> IF t = Main THEN "start" ELSE "idle"]
    /\ calls = [t \in Threads |-> 0]
    /\ tmp = [t \in Threads |-> NoneV]
    /\ ret = [t \in Threads |-> NoneV]
    /\ entered = [t \in Threads |-> "NotStarted"]
    /\ printed = [started |-> 0, deref |-> 0, init |-> 0, result |-> 0]
    /\ initCount = 0
    /\ winner = NoThread
    /\ writers = <<>>
    /\ PlainInitializer
    /\ BenchStatics

\* main: println!("Program started").
Start(t) ==
    /\ t = Main
    /\ pc[t] = "start"
    /\ pc' = [pc EXCEPT ![t] = "idle"]
    /\ printed' = [printed EXCEPT !.started = @ + 1]
    /\ UNCHANGED elsewhere
    /\ UNCHANGED <<gate, slot, compileOk, calls, tmp, ret, entered,
                   initCount, winner, writers>>

\* Entry of deref: println!("Derefencing CompiledRegex").
Deref(t) ==
    /\ pc[t] = "idle"
    /\ calls[t] < Quota(t)
    /\ pc' = [pc EXCEPT ![t] = "call_once"]
    /\ entered' = [entered EXCEPT ![t] = gate]
    /\ printed' = [printed EXCEPT !.deref = @ + 1]
    /\ UNCHANGED elsewhere
    /\ UNCHANGED <<gate, slot, compileOk, calls, tmp, ret, initCount,
                   winner, writers>>

\* The frame of a call_once step.
CallOnceFrame ==
    UNCHANGED <<slot, compileOk, calls, tmp, ret, entered, printed,
                initCount, writers, elsewhere>>

\* Variant of CallOnce: the test of the Once and its update are not one atomic
\* step, so a caller that finds it running runs the closure as well.
CallOnceNoExclusion(t) ==
    /\ pc[t] = "call_once"
    /\ CASE gate = "Done" ->
              /\ pc' = [pc EXCEPT ![t] = "read"]
              /\ UNCHANGED <<gate, winner>>
         [] gate \in {"NotStarted", "Running"} ->
              /\ gate' = "Running"
              /\ winner' = t
              /\ pc' = [pc EXCEPT ![t] = "closure"]
         [] gate = "Poisoned" ->
              /\ pc' = [pc EXCEPT ![t] = PanicPoisoned]
              /\ UNCHANGED <<gate, winner>>
    /\ CallOnceFrame

\* Variant of CallOnce: no completed check, the closure runs on every call
\* that finds no other caller running it.
CallOnceNoFastPath(t) ==
    /\ pc[t] = "call_once"
    /\ CASE gate \in {"NotStarted", "Done"} ->
              /\ gate' = "Running"
              /\ winner' = t
              /\ pc' = [pc EXCEPT ![t] = "closure"]
         [] gate = "Running" ->
              /\ pc' = [pc EXCEPT ![t] = "wait"]
              /\ UNCHANGED <<gate, winner>>
         [] gate = "Poisoned" ->
              /\ pc' = [pc EXCEPT ![t] = PanicPoisoned]
              /\ UNCHANGED <<gate, winner>>
    /\ CallOnceFrame

\* Variant of CallOnce: a poisoned Once is taken again, as call_once_force
\* would do.
CallOnceForce(t) ==
    /\ pc[t] = "call_once"
    /\ CASE gate = "Done" ->
              /\ pc' = [pc EXCEPT ![t] = "read"]
              /\ UNCHANGED <<gate, winner>>
         [] gate \in {"NotStarted", "Poisoned"} ->
              /\ gate' = "Running"
              /\ winner' = t
              /\ pc' = [pc EXCEPT ![t] = "closure"]
         [] gate = "Running" ->
              /\ pc' = [pc EXCEPT ![t] = "wait"]
              /\ UNCHANGED <<gate, winner>>
    /\ CallOnceFrame

\* Variant of CallOnce: a caller that finds the closure running does not
\* block but returns at once.
CallOnceNoWait(t) ==
    /\ pc[t] = "call_once"
    /\ CASE gate \in {"Done", "Running"} ->
              /\ pc' = [pc EXCEPT ![t] = "read"]
              /\ UNCHANGED <<gate, winner>>
         [] gate = "NotStarted" ->
              /\ gate' = "Running"
              /\ winner' = t
              /\ pc' = [pc EXCEPT ![t] = "closure"]
         [] gate = "Poisoned" ->
              /\ pc' = [pc EXCEPT ![t] = PanicPoisoned]
              /\ UNCHANGED <<gate, winner>>
    /\ CallOnceFrame

\* LAZY.1.call_once(..): one atomic look at the Once.  Complete: return;
\* incomplete: take it and run the closure; running: block; poisoned: panic.
CallOnce(t) ==
    /\ pc[t] = "call_once"
    /\ CASE gate = "Done" ->
              /\ pc' = [pc EXCEPT ![t] = "read"]
              /\ UNCHANGED <<gate, winner>>
         [] gate = "NotStarted" ->
              /\ gate' = "Running"
              /\ winner' = t
              /\ pc' = [pc EXCEPT ![t] = "closure"]
         [] gate = "Running" ->
              /\ pc' = [pc EXCEPT ![t] = "wait"]
              /\ UNCHANGED <<gate, winner>>
         [] gate = "Poisoned" ->
              /\ pc' = [pc EXCEPT ![t] = PanicPoisoned]
              /\ UNCHANGED <<gate, winner>>
    /\ CallOnceFrame

\* Variant of Wake: only completion wakes the blocked callers, a panic of the
\* closure does not.
WakeOnDoneOnly(t) ==
    /\ pc[t] = "wait"
    /\ gate = "Done"
    /\ pc' = [pc EXCEPT ![t] = "read"]
    /\ UNCHANGED elsewhere
    /\ UNCHANGED <<gate, slot, compileOk, calls, tmp, ret, entered, printed,
                   initCount, winner, writers>>

\* Variant of Wake: a blocked caller is released in the same way whether the
\* closure completed or panicked.
WakeIgnorePoison(t) ==
    /\ pc[t] = "wait"
    /\ gate \in {"Done", "Poisoned"}
    /\ pc' = [pc EXCEPT ![t] = "read"]
    /\ UNCHANGED elsewhere
    /\ UNCHANGED <<gate, slot, compileOk, calls, tmp, ret, entered, printed,
                   initCount, winner, writers>>

\* A caller blocked in call_once is woken when the running closure is over:
\* it returns if the Once is complete and panics if it is poisoned.
Wake(t) ==
    /\ pc[t] = "wait"
    /\ gate \in {"Done", "Poisoned"}
    /\ pc' = [pc EXCEPT ![t] = IF gate = "Done" THEN "read" ELSE PanicPoisoned]
    /\ UNCHANGED elsewhere
    /\ UNCHANGED <<gate, slot, compileOk, calls, tmp, ret, entered, printed,
                   initCount, winner, writers>>

\* The frame of the closure's first step.
CompileFrame ==
    UNCHANGED <<slot, compileOk, calls, ret, entered, printed, winner,
                writers, elsewhere>>

\* Variant of Compile: the panic of the closure is swallowed and the Once is
\* marked complete all the same.
CompileSwallowPanic(t) ==
    /\ pc[t] = "closure"
    /\ ~reentrant
    /\ initCount' = initCount + 1
    /\ IF compileOk
         THEN /\ tmp' = [tmp EXCEPT ![t] = Some(initCount + 1)]
              /\ pc' = [pc EXCEPT ![t] = "set"]
              /\ gate' = gate
         ELSE /\ tmp' = tmp
              /\ pc' = [pc EXCEPT ![t] = PanicInit]
              /\ gate' = "Done"
    /\ CompileFrame

\* Variant of Compile: a panic of the closure puts the Once back to
\* incomplete, so that a later caller tries again.
CompileResetOnPanic(t) ==
    /\ pc[t] = "closure"
    /\ ~reentrant
    /\ initCount' = initCount + 1
    /\ IF compileOk
         THEN /\ tmp' = [tmp EXCEPT ![t] = Some(initCount + 1)]
              /\ pc' = [pc EXCEPT ![t] = "set"]
              /\ gate' = gate
         ELSE /\ tmp' = tmp
              /\ pc' = [pc EXCEPT ![t] = PanicInit]
              /\ gate' = "NotStarted"
    /\ CompileFrame

\* Variant of Compile: the Once is marked complete as soon as the value is
\* built, before it is stored.
CompileEarlyDone(t) ==
    /\ pc[t] = "closure"
    /\ ~reentrant
    /\ initCount' = initCount + 1
    /\ IF compileOk
         THEN /\ tmp' = [tmp EXCEPT ![t] = Some(initCount + 1)]
              /\ pc' = [pc EXCEPT ![t] = "set"]
              /\ gate' = "Done"
         ELSE /\ tmp' = tmp
              /\ pc' = [pc EXCEPT ![t] = PanicInit]
              /\ gate' = "Poisoned"
    /\ CompileFrame

\* The closure: regex::Regex::new(LONG_REGEX).unwrap().  An Err panics out
\* of the closure, and the unwinding poisons the Once.
Compile(t) ==
    /\ pc[t] = "closure"
    /\ ~reentrant
    /\ initCount' = initCount + 1
    /\ IF compileOk
         THEN /\ tmp' = [tmp EXCEPT ![t] = Some(initCount + 1)]
              /\ pc' = [pc EXCEPT ![t] = "set"]
              /\ gate' = gate
         ELSE /\ tmp' = tmp
              /\ pc' = [pc EXCEPT ![t] = PanicInit]
              /\ gate' = "Poisoned"
    /\ CompileFrame

\* The closure: LAZY.0.set(Some(..)), a plain store that is not atomic.
SetBegin(t) ==
    /\ pc[t] = "set"
    /\ slot' = Torn
    /\ pc' = [pc EXCEPT ![t] = "setting"]
    /\ UNCHANGED elsewhere
    /\ UNCHANGED <<gate, compileOk, calls, tmp, ret, entered, printed,
                   initCount, winner, writers>>

SetEnd(t) ==
    /\ pc[t] = "setting"
    /\ slot' = tmp[t]
    /\ tmp' = [tmp EXCEPT ![t] = NoneV]
    /\ writers' = Append(writers, t)
    /\ pc' = [pc EXCEPT ![t] = "println"]
    /\ UNCHANGED elsewhere
    /\ UNCHANGED <<gate, compileOk, calls, ret, entered, printed, initCount,
                   winner>>

\* The closure: println!("CompiledRegex initialized").
PrintInitialized(t) ==
    /\ pc[t] = "println"
    /\ printed' = [printed EXCEPT !.init = @ + 1]
    /\ pc' = [pc EXCEPT ![t] = "complete"]
    /\ UNCHANGED elsewhere
    /\ UNCHANGED <<gate, slot, compileOk, calls, tmp, ret, entered,
                   initCount, winner, writers>>

\* The closure has returned: call_once marks the Once complete and returns.
Complete(t) ==
    /\ pc[t] = "complete"
    /\ gate' = "Done"
    /\ pc' = [pc EXCEPT ![t] = "read"]
    /\ UNCHANGED elsewhere
    /\ UNCHANGED <<slot, compileOk, calls, tmp, ret, entered, printed,
                   initCount, winner, writers>>

\* Where a thread goes when deref has returned a reference.
AfterReturn(t) == IF t = Main THEN "print" ELSE "idle"

\* What the thread finds behind the pointer: match *LAZY.0.as_ptr().  Some(x)
\* gives x and None panics.  A read that overlaps the store is a data race:
\* it may give the value, garbage, or take the None arm.
ReadOutcomes == IF slot = Torn THEN {NoneV, Garbage} \cup {tmp[u] : u \in {w \in Threads : pc[w] = "setting"}}
                ELSE {slot}

\* Variant of Read: the value is moved out of the cell (Cell::take) instead
\* of being borrowed through the pointer.
ReadTake(t) ==
    /\ pc[t] = "read"
    /\ \E o \in ReadOutcomes :
         IF IsSome(o)
           THEN /\ ret' = [ret EXCEPT ![t] = o]
                /\ pc' = [pc EXCEPT ![t] = AfterReturn(t)]
                /\ calls' = [calls EXCEPT ![t] = @ + 1]
           ELSE /\ pc' = [pc EXCEPT ![t] = PanicUninit]
                /\ UNCHANGED <<ret, calls>>
    /\ slot' = NoneV
    /\ UNCHANGED elsewhere
    /\ UNCHANGED <<gate, compileOk, tmp, entered, printed, initCount,
                   winner, writers>>

Read(t) ==
    /\ pc[t] = "read"
    /\ \E o \in ReadOutcomes :
         IF IsSome(o)
           THEN /\ ret' = [ret EXCEPT ![t] = o]
                /\ pc' = [pc EXCEPT ![t] = AfterReturn(t)]
                /\ calls' = [calls EXCEPT ![t] = @ + 1]
           ELSE /\ pc' = [pc EXCEPT ![t] = PanicUninit]
                /\ UNCHANGED <<ret, calls>>
    /\ UNCHANGED elsewhere
    /\ UNCHANGED <<gate, slot, compileOk, tmp, entered, printed, initCount,
                   winner, writers>>

\* main: println!("{..} is valid: {}", COMPILED_REGEX.is_match(..)).
PrintResult(t) ==
    /\ t = Main
    /\ pc[t] = "print"
    /\ printed' = [printed EXCEPT !.result = @ + 1]
    /\ pc' = [pc EXCEPT ![t] = "idle"]
    /\ UNCHANGED elsewhere
    /\ UNCHANGED <<gate, slot, compileOk, calls, tmp, ret, entered,
                   initCount, winner, writers>>

\* An initializer that dereferences COMPILED_REGEX itself: the closure, run
\* by the thread that took the Once, enters deref again before it has built
\* the value, and prints deref's entry line.
Reenter(t) ==
    /\ pc[t] = "closure"
    /\ reentrant
    /\ t \notin nested
    /\ nested' = nested \cup {t}
    /\ pc' = [pc EXCEPT ![t] = "call_once"]
    /\ entered' = [entered EXCEPT ![t] = gate]
    /\ printed' = [printed EXCEPT !.deref = @ + 1]
    /\ UNCHANGED <<gate, slot, compileOk, calls, tmp, ret, initCount,
                   winner, writers, reentrant, benchVars>>

\* The steps of a thread that is inside deref.
DerefStep(t) ==
    \/ CallOnce(t)
    \/ Wake(t)
    \/ Compile(t)
    \/ SetBegin(t)
    \/ SetEnd(t)
    \/ PrintInitialized(t)
    \/ Complete(t)
    \/ Read(t)

Next ==
    \E t \in Threads :
        \/ Start(t)
        \/ Deref(t)
        \/ DerefStep(t)
        \/ PrintResult(t)

Spec == Init /\ [][Next]_vars

\* The program with either kind of initializer: the one of src/main.rs, or
\* one that dereferences the cell it initializes.
InitAnyInitializer ==
    /\ gate = "NotStarted"
    /\ slot = NoneV
    /\ compileOk \in BOOLEAN
    /\ pc = [t \in Threads |-> IF t = Main THEN "start" ELSE "idle"]
    /\ calls = [t \in Threads |-> 0]
    /\ tmp = [t \in Threads |-> NoneV]
    /\ ret = [t \in Threads |-> NoneV]
    /\ entered = [t \in Threads |-> "NotStarted"]
    /\ printed = [started |-> 0, deref |-> 0, init |-> 0, result |-> 0]
    /\ initCount = 0
    /\ winner = NoThread
    /\ writers = <<>>
    /\ reentrant \in BOOLEAN
    /\ nested = {}
    /\ BenchStatics

NextAnyInitializer ==
    \/ Next
    \/ \E t \in Threads : Reenter(t)

ReentrantSpec == InitAnyInitializer /\ [][NextAnyInitializer]_vars

\* Every step thread t can take.
ThreadStep(t) ==
    \/ Start(t)
    \/ Deref(t)
    \/ DerefStep(t)
    \/ PrintResult(t)
    \/ Reenter(t)

\* Threads are preemptible and scheduled fairly: a thread inside deref that
\* can take a step eventually takes it.  Whether a thread calls deref at all
\* is up to the caller.
FairSpec == Spec /\ \A t \in Threads : WF_vars(DerefStep(t))

TypeOK ==
    /\ gate \in GateStates
    /\ slot.tag \in {"None", "Torn", "Some"}
    /\ compileOk \in BOOLEAN
    /\ \A t \in Threads : pc[t] \in {"start", "idle", "print"} \cup InDeref \cup Panicked
    /\ \A t \in Threads : calls[t] \in 0..Quota(t)
    /\ winner \in Threads \cup {NoThread}

\* ------------------------------------------------- the program of benches
\* benches/lib.rs: the threads of the test harness call the test and bench
\* functions, which dereference the lazy statics.  A deref of a lazy static
\* is the macro's deref (examples/expanded.rs), LAZY.get(initializer), the
\* algorithm that src/main.rs spells out: call_once around a closure that
\* stores Some(initializer()), then the read through the pointer.

\* What a step of the benches leaves alone: the static of src/main.rs.
mainStatics == <<gate, slot, printed, initCount, winner, writers, reentrant,
                 nested>>

\* The operation thread t is at, and the static it is about.
CurOp(t) == Body(fn[t])[step[t]]
CurCell(t) == CurOp(t).cell

BenchInit ==
    /\ gate = "NotStarted"
    /\ slot = NoneV
    /\ compileOk \in BOOLEAN
    /\ pc = [t \in Testers |-> "idle"]
    /\ calls = [t \in Testers |-> 0]
    /\ tmp = [t \in Testers |-> NoneV]
    /\ ret = [t \in Testers |-> NoneV]
    /\ entered = [t \in Testers |-> "NotStarted"]
    /\ printed = [started |-> 0, deref |-> 0, init |-> 0, result |-> 0]
    /\ initCount = 0
    /\ winner = NoThread
    /\ writers = <<>>
    /\ PlainInitializer
    /\ BenchStaticsFor(Testers)

\* Function calls begun so far: the completed ones and those under way or
\* ended by a panic.
FnCallsBegun ==
    SumOver(calls, Testers) + Cardinality({t \in Testers : fn[t] # NoFn})

\* A harness thread calls function f, which begins its first operation:
\* COMPILED_REGEX.is_match(..) derefs the static, and
\* lazy_static::initialize(&COMPILED_REGEX) is `let _ = &**lazy`, a deref
\* whose result is dropped.
CallFn(t, f) ==
    /\ pc[t] = "idle"
    /\ FnCallsBegun < MaxFnCalls
    /\ fn' = [fn EXCEPT ![t] = f]
    /\ step' = [step EXCEPT ![t] = 1]
    /\ pc' = [pc EXCEPT ![t] = "call_once"]
    /\ UNCHANGED <<compileOk, calls, tmp, ret, entered, gates, slots, counts,
                   mainStatics>>

\* The frame of a call_once step on a lazy static.
LazyCallOnceFrame ==
    UNCHANGED <<compileOk, calls, tmp, ret, entered, slots, counts, fn, step,
                mainStatics>>

\* Variant of LazyCallOnce: initialize takes a complete Once again and so
\* forces a new initialization.
LazyCallOnceReinit(t) ==
    /\ pc[t] = "call_once"
    /\ LET c == CurCell(t)
           fresh == gates[c] = "NotStarted"
                      \/ (gates[c] = "Done" /\ CurOp(t).kind = "initialize")
       IN CASE fresh ->
                 /\ gates' = [gates EXCEPT ![c] = "Running"]
                 /\ pc' = [pc EXCEPT ![t] = "closure"]
            [] ~fresh /\ gates[c] = "Done" ->
                 /\ pc' = [pc EXCEPT ![t] = "read"]
                 /\ UNCHANGED gates
            [] gates[c] = "Running" ->
                 /\ pc' = [pc EXCEPT ![t] = "wait"]
                 /\ UNCHANGED gates
            [] gates[c] = "Poisoned" ->
                 /\ pc' = [pc EXCEPT ![t] = PanicPoisoned]
                 /\ UNCHANGED gates
    /\ LazyCallOnceFrame

\* LAZY.get: self.1.call_once(..) on the static's own Once.
LazyCallOnce(t) ==
    /\ pc[t] = "call_once"
    /\ LET c == CurCell(t)
       IN CASE gates[c] = "Done" ->
                 /\ pc' = [pc EXCEPT ![t] = "read"]
                 /\ UNCHANGED gates
            [] gates[c] = "NotStarted" ->
                 /\ gates' = [gates EXCEPT ![c] = "Running"]
                 /\ pc' = [pc EXCEPT ![t] = "closure"]
            [] gates[c] = "Running" ->
                 /\ pc' = [pc EXCEPT ![t] = "wait"]
                 /\ UNCHANGED gates
            [] gates[c] = "Poisoned" ->
                 /\ pc' = [pc EXCEPT ![t] = PanicPoisoned]
                 /\ UNCHANGED gates
    /\ LazyCallOnceFrame

\* A caller blocked on the static's Once resumes when its closure is over.
LazyWake(t) ==
    /\ pc[t] = "wait"
    /\ gates[CurCell(t)] \in {"Done", "Poisoned"}
    /\ pc' = [pc EXCEPT ![t] =
                IF gates[CurCell(t)] = "Done" THEN "read" ELSE PanicPoisoned]
    /\ UNCHANGED <<compileOk, calls, tmp, ret, entered, benchVars,
                   mainStatics>>

\* The closure: the static's initializer, regex::Regex::new(LONG_REGEX)
\* .unwrap(); an Err panics out of the closure and poisons the Once.
LazyCompile(t) ==
    /\ pc[t] = "closure"
    /\ LET c == CurCell(t)
       IN /\ counts' = [counts EXCEPT ![c] = @ + 1]
          /\ IF compileOk
               THEN /\ tmp' = [tmp EXCEPT ![t] = Some(RegexId(c, counts[c] + 1))]
                    /\ pc' = [pc EXCEPT ![t] = "set"]
                    /\ gates' = gates
               ELSE /\ tmp' = tmp
                    /\ pc' = [pc EXCEPT ![t] = PanicInit]
                    /\ gates' = [gates EXCEPT ![c] = "Poisoned"]
    /\ UNCHANGED <<compileOk, calls, ret, entered, slots, fn, step,
                   mainStatics>>

\* The closure: self.0.set(Some(..)) on the static's own Cell.
LazySetBegin(t) ==
    /\ pc[t] = "set"
    /\ slots' = [slots EXCEPT ![CurCell(t)] = Torn]
    /\ pc' = [pc EXCEPT ![t] = "setting"]
    /\ UNCHANGED <<compileOk, calls, tmp, ret, entered, gates, counts, fn,
                   step, mainStatics>>

\* The frame of the end of the store.
LazySetEndFrame ==
    UNCHANGED <<compileOk, calls, ret, entered, gates, counts, fn, step,
                mainStatics>>

\* Variant of LazySetEnd: the statics share one Cell, so the store of one
\* shows in all of them.
LazySetEndShared(t) ==
    /\ pc[t] = "setting"
    /\ slots' = [c \in Cells |-> tmp[t]]
    /\ tmp' = [tmp EXCEPT ![t] = NoneV]
    /\ pc' = [pc EXCEPT ![t] = "complete"]
    /\ LazySetEndFrame

LazySetEnd(t) ==
    /\ pc[t] = "setting"
    /\ slots' = [slots EXCEPT ![CurCell(t)] = tmp[t]]
    /\ tmp' = [tmp EXCEPT ![t] = NoneV]
    /\ pc' = [pc EXCEPT ![t] = "complete"]
    /\ LazySetEndFrame

\* The closure has returned: call_once marks the static's Once complete.
LazyComplete(t) ==
    /\ pc[t] = "complete"
    /\ gates' = [gates EXCEPT ![CurCell(t)] = "Done"]
    /\ pc' = [pc EXCEPT ![t] = "read"]
    /\ UNCHANGED <<compileOk, calls, tmp, ret, entered, slots, counts, fn,
                   step, mainStatics>>

\* What the thread finds behind the pointer of the static it dereferences.
LazyReadOutcomes(t) ==
    IF slots[CurCell(t)] = Torn
      THEN {NoneV, Garbage}
             \cup {tmp[u] : u \in {w \in Testers : pc[w] = "setting"
                                                  /\ CurCell(w) = CurCell(t)}}
      ELSE {slots[CurCell(t)]}

\* LAZY.get: the read through the pointer.  is_match uses the reference;
\* initialize drops it (let _ = &**lazy).  The function then goes on to its
\* next operation, or returns.
LazyRead(t) ==
    /\ pc[t] = "read"
    /\ \E o \in LazyReadOutcomes(t) :
         IF IsSome(o)
           THEN /\ ret' = IF CurOp(t).kind = "deref"
                            THEN [ret EXCEPT ![t] = o] ELSE ret
                /\ IF step[t] < Len(Body(fn[t]))
                     THEN /\ step' = [step EXCEPT ![t] = @ + 1]
                          /\ pc' = [pc EXCEPT ![t] = "call_once"]
                          /\ UNCHANGED <<fn, calls>>
                     ELSE /\ step' = [step EXCEPT ![t] = 0]
                          /\ fn' = [fn EXCEPT ![t] = NoFn]
                          /\ pc' = [pc EXCEPT ![t] = "idle"]
                          /\ calls' = [calls EXCEPT ![t] = @ + 1]
           ELSE /\ pc' = [pc EXCEPT ![t] = PanicUninit]
                /\ UNCHANGED <<ret, calls, fn, step>>
    /\ UNCHANGED <<compileOk, tmp, entered, gates, slots, counts,
                   mainStatics>>

\* The steps of a thread inside the deref of a lazy static.
LazyStep(t) ==
    \/ LazyCallOnce(t)
    \/ LazyWake(t)
    \/ LazyCompile(t)
    \/ LazySetBegin(t)
    \/ LazySetEnd(t)
    \/ LazyComplete(t)
    \/ LazyRead(t)

BenchNext ==
    \E t \in Testers :
        \/ \E f \in Fns : CallFn(t, f)
        \/ LazyStep(t)

BenchSpec == BenchInit /\ [][BenchNext]_vars

BenchTypeOK ==
    /\ \A c \in Cells :
         /\ gates[c] \in GateStates
         /\ slots[c].tag \in {"None", "Torn", "Some"}
         /\ counts[c] \in 0..1
    /\ \A t \in Testers :
         /\ fn[t] \in Fns \cup {NoFn}
         /\ (fn[t] = NoFn) = (step[t] = 0)
         /\ fn[t] # NoFn => step[t] \in 1..Len(Body(fn[t]))
         /\ calls[t] \in 0..MaxFnCalls

\* ------------------------------------------------------------ shorthands
\* Thread t is outside deref and has not panicked.
Returned(t) == pc[t] \in {"idle", "print"}

\* Thread t has completed at least one deref.
HasReturned(t) == calls[t] > 0

\* A step in which thread t completes a deref and returns a reference.
Returns(t) == calls'[t] > calls[t]

\* A step of thread t that belongs to a deref: its entry or a step inside it.
DerefMoved(t) ==
    /\ pc'[t] # pc[t]
    /\ \/ pc[t] \in InDeref
       \/ pc[t] = "idle" /\ pc'[t] = "call_once"

\* No caller besides the main thread has touched the cell: the runs of
\* fn main as src/main.rs has it.
WorkersIdle == \A w \in Workers : pc[w] = "idle" /\ calls[w] = 0

\* Dereferences begun so far: the completed ones and those under way or
\* ended by a panic.
DerefsBegun ==
    SumOver(calls, Threads)
      + Cardinality({t \in Threads : pc[t] \in InDeref \cup Panicked})

\* ------------------------------------------------------------------ C1
\* C1: however the threads that dereference the uninitialized cell
\* interleave, Regex::new runs at most once, it has run exactly once as soon
\* as any call_once has returned to a caller, and every caller that has
\* returned holds the same value, the one in the slot.
C1_InitOnceSameValue ==
    /\ initCount <= 1
    /\ \A t \in Threads :
         (pc[t] = "read" \/ HasReturned(t)) => initCount = 1
    /\ \A t \in Threads : HasReturned(t) => ret[t] = slot /\ IsSome(ret[t])
    /\ \A t, u \in Threads :
         (HasReturned(t) /\ HasReturned(u)) => ret[t] = ret[u]

\* Every thread began its first deref while the Once was incomplete, and
\* every one of them has returned.
C1_Witness ==
    /\ \A t \in Threads :
         calls[t] = 1 /\ Returned(t) /\ entered[t] = "NotStarted"
    /\ initCount = 1

\* ------------------------------------------------------------------ C2
\* C2: once the Once is complete, no step runs Regex::new again (the count
\* stays 1) and every deref that returns from then on returns the value in
\* the slot, which is the value every earlier deref returned.
C2_IdempotentAfterInit ==
    [][gate = "Done" =>
         /\ initCount = 1
         /\ initCount' = initCount
         /\ \A t \in Threads :
              Returns(t) =>
                /\ ret'[t] = slot
                /\ \A u \in Threads : HasReturned(u) => ret'[t] = ret[u]]_vars

\* A thread whose second deref began after the Once was complete has
\* returned from it.
C2_Witness ==
    \E t \in Threads :
        /\ calls[t] = 2
        /\ entered[t] = "Done"
        /\ Returned(t)
        /\ initCount = 1

\* ------------------------------------------------------------------ C3
\* C3: when Regex::new fails, the Once never becomes complete, no deref ever
\* returns a value or reaches the read of the slot, the thread that ran the
\* closure ends in the closure's panic, and every caller that is inside deref
\* once the Once is poisoned ends in a panic too.
C3_FailurePropagates ==
    /\ [](~compileOk =>
            /\ gate # "Done"
            /\ \A t \in Threads :
                 /\ calls[t] = 0
                 /\ ret[t] = NoneV
                 /\ pc[t] \notin {"read", "print"})
    /\ [](gate = "Poisoned" =>
            /\ ~compileOk
            /\ pc[winner] = PanicInit
            /\ \A t \in Threads :
                 pc[t] \in InDeref => pc[t] \in {"call_once", "wait"})
    /\ \A t \in Threads :
         (gate = "Poisoned" /\ pc[t] \in InDeref) ~> (pc[t] = PanicPoisoned)

\* The closure has panicked, a caller that was blocked on it has panicked,
\* and so has a caller that came later.
C3_Witness ==
    /\ gate = "Poisoned"
    /\ pc[winner] = PanicInit
    /\ \E t, u \in Threads :
         /\ t # u
         /\ pc[t] = PanicPoisoned /\ entered[t] = "Running"
         /\ pc[u] = PanicPoisoned /\ entered[u] = "Poisoned"

\* ------------------------------------------------------------------ C4
\* C4: a failed first attempt is not retried.  Once the Once is poisoned it
\* stays poisoned, Regex::new has run exactly once and never runs again, and
\* a deref that begins on the poisoned Once can only end in the panic of
\* call_once.
C4_PoisonedNoRetry ==
    /\ [](gate = "Poisoned" => initCount = 1)
    /\ [](\A t \in Threads :
            entered[t] = "Poisoned" => pc[t] \in {"call_once", PanicPoisoned})
    /\ [][gate = "Poisoned" =>
            /\ gate' = "Poisoned"
            /\ initCount' = initCount]_vars

\* The first caller failed in the closure, and every other thread called
\* afterwards and failed as well, with Regex::new run once.
C4_Witness ==
    /\ ~compileOk
    /\ initCount = 1
    /\ \A t \in Threads \ {winner} :
         entered[t] = "Poisoned" /\ pc[t] = PanicPoisoned

\* ------------------------------------------------------------------ C5
\* C5: a complete Once implies a slot that is Some; the slot is stored into
\* at most once, exactly once when the Once is complete, by the thread that
\* took the Once; and a slot that is Some never changes.
C5_SlotWrittenOnce ==
    /\ [](gate = "Done" => IsSome(slot) /\ Len(writers) = 1)
    /\ [](Len(writers) <= 1)
    /\ [](\A i \in 1..Len(writers) : writers[i] = winner)
    /\ [][IsSome(slot) => slot' = slot]_vars

\* A worker took the Once and stored the value, and another thread has read
\* it since.
C5_Witness ==
    /\ gate = "Done"
    /\ IsSome(slot)
    /\ winner \in Workers
    /\ writers = <<winner>>
    /\ \E t \in Threads \ {winner} : HasReturned(t)

\* ------------------------------------------------------------------ C6
\* C6: a thread is at the read of the slot only when the Once is complete and
\* the slot fully written; a caller that found the closure running stays
\* blocked while it runs; and every deref that returns does so with the Once
\* complete and returns the value in the slot.
C6_NoReadBeforeDone ==
    /\ [](\A t \in Threads :
            pc[t] = "read" => gate = "Done" /\ IsSome(slot))
    /\ [](slot = Torn => gate = "Running")
    /\ [][\A t \in Threads :
            (pc[t] = "wait" /\ pc'[t] # "wait") => gate # "Running"]_vars
    /\ [][\A t \in Threads :
            Returns(t) => gate = "Done" /\ IsSome(slot) /\ ret'[t] = slot]_vars

\* A caller is blocked in call_once while the winner is in the middle of the
\* store into the slot.
C6_Witness ==
    \E t, u \in Threads :
        /\ pc[t] = "wait"
        /\ pc[u] = "setting"
        /\ slot = Torn

\* ------------------------------------------------------------------ C7
\* C7: under fair scheduling every thread that is inside deref leaves it, by
\* returning or by a panic.  (The closure of this cell terminates and does
\* not dereference the cell.)
C7_EveryCallerLeaves ==
    \A t \in Threads : (pc[t] \in InDeref) ~> (pc[t] \notin InDeref)

\* Every worker is blocked in call_once while the main thread runs the
\* closure.
C7_Witness ==
    /\ pc[Main] = "closure"
    /\ \A w \in Workers : pc[w] = "wait"

\* ------------------------------------------------------------------ C8
\* C8: the Once only moves NotStarted -> Running, Running -> Done and
\* Running -> Poisoned; nothing leaves Done or Poisoned.
C8_GateTransitions ==
    [][gate' # gate =>
         <<gate, gate'>> \in {<<"NotStarted", "Running">>,
                              <<"Running", "Done">>,
                              <<"Running", "Poisoned">>}]_vars

\* A caller is about to look at a Once that is already poisoned.
C8_Witness ==
    /\ gate = "Poisoned"
    /\ \E t \in Threads : pc[t] = "call_once" /\ entered[t] = "Poisoned"

\* ------------------------------------------------------------------ C9
\* C9 as stated: no step of a deref of an already initialized cell writes
\* to stdout or changes the Once or the slot.
C9_NoOutputWhenInitialized ==
    [][\A t \in Threads :
         (gate = "Done" /\ DerefMoved(t)) =>
            /\ printed' = printed
            /\ gate' = gate
            /\ slot' = slot]_vars

\* C9 as amended: every deref prints the one line "Derefencing CompiledRegex"
\* on entry, so the lines of that kind count the derefs begun; apart from
\* that line a deref of an already initialized cell prints nothing and
\* changes neither the Once, the slot nor the number of Regex::new runs; and
\* "CompiledRegex initialized" is printed once, by the closure.
C9_OnlyEntryLineWhenInitialized ==
    /\ [](printed.deref = DerefsBegun)
    /\ [](printed.init <= 1)
    /\ [](gate = "Done" => printed.init = 1)
    /\ [][\A t \in Threads :
            (gate = "Done" /\ DerefMoved(t)) =>
               /\ gate' = gate
               /\ slot' = slot
               /\ initCount' = initCount
               /\ printed'.init = printed.init
               /\ printed'.started = printed.started
               /\ printed'.result = printed.result
               /\ printed'.deref =
                    printed.deref + (IF pc[t] = "idle" THEN 1 ELSE 0)]_vars

\* A worker that did not run the closure has completed a deref that began on
\* the initialized cell.
C9_Witness ==
    \E w \in Workers :
        /\ winner # w
        /\ calls[w] >= 1
        /\ entered[w] = "Done"
        /\ pc[w] = "idle"
        /\ printed.init = 1

\* ------------------------------------------------------------------ C10
\* C10: nothing runs the initializer before the first deref.  In fn main on
\* its own: "Program started" is printed while the cell is uninitialized,
\* the first is_match call initializes it, and the second one begins on the
\* initialized cell and returns the same value without another Regex::new.
C10_LazyInMain ==
    /\ printed.deref = 0 => (gate = "NotStarted" /\ slot = NoneV /\ initCount = 0)
    /\ WorkersIdle =>
         /\ (pc[Main] = "start" =>
               gate = "NotStarted" /\ initCount = 0 /\ printed.started = 0)
         /\ ((pc[Main] = "idle" /\ calls[Main] = 0) =>
               /\ printed.started = 1
               /\ gate = "NotStarted" /\ slot = NoneV /\ initCount = 0)
         /\ ((calls[Main] = 0 /\ pc[Main] \in InDeref) =>
               entered[Main] = "NotStarted")
         /\ (calls[Main] >= 1 =>
               /\ gate = "Done"
               /\ winner = Main
               /\ initCount = 1
               /\ printed.init = 1
               /\ ret[Main] = Some(1))
         /\ ((calls[Main] = 1 /\ pc[Main] \in InDeref) =>
               entered[Main] = "Done")

\* fn main has run to its end on its own: both is_match calls are done and
\* both results are printed.
C10_Witness ==
    /\ WorkersIdle
    /\ calls[Main] = MainCalls
    /\ pc[Main] = "idle"
    /\ printed.started = 1
    /\ printed.result = 2
    /\ initCount = 1


\* ------------------------------------------------------------------ C11
\* C11: the None arm of deref's match is never taken.  No thread ends in the
\* "attempted to dereference an uninitialized lazy static" panic, and a
\* thread to which call_once has returned can only find Some behind the
\* pointer.
C11_UninitPanicUnreachable ==
    \A t \in Threads :
        /\ pc[t] # PanicUninit
        /\ pc[t] = "read" => \A o \in ReadOutcomes : IsSome(o) /\ o # Garbage

\* call_once has returned to a caller that had found the closure running,
\* and the caller is about to read the slot.
C11_Witness ==
    \E t \in Threads :
        /\ t # winner
        /\ pc[t] = "read"
        /\ entered[t] = "Running"

\* ------------------------------------------------------------------ C13
\* C13: a deref that begins on a complete Once never blocks and never enters
\* the closure: it is at call_once or at the read, its next step is always
\* enabled whatever the other threads do, and none of its steps changes the
\* Once, the slot, the stores into the slot or the number of Regex::new
\* runs; when it returns it returns the value in the slot.
C13_FastPath ==
    /\ [](\A t \in Threads :
            (entered[t] = "Done" /\ pc[t] \in InDeref) =>
               /\ pc[t] \in {"call_once", "read"}
               /\ ENABLED DerefStep(t))
    /\ [][\A t \in Threads :
            (entered[t] = "Done" /\ DerefMoved(t)) =>
               /\ gate = "Done"
               /\ gate' = gate
               /\ slot' = slot
               /\ writers' = writers
               /\ initCount' = initCount
               /\ (Returns(t) => ret'[t] = slot)]_vars

\* A deref that began on the complete Once is at its read while every other
\* thread is inside a deref of its own.
C13_Witness ==
    \E t \in Threads :
        /\ entered[t] = "Done"
        /\ pc[t] = "read"
        /\ \A u \in Threads \ {t} : pc[u] \in InDeref

\* ------------------------------------------------------------------ C12
\* C12: with an initializer that dereferences the cell it initializes, the
\* thread that runs the closure blocks in the inner call_once on the Once it
\* holds itself: once it waits there it has no step left, it never returns
\* from a deref, and the Once stays Running and is never Done.
C12_ReentrancyDeadlocks ==
    /\ reentrant =>
         /\ gate \in {"NotStarted", "Running"}
         /\ initCount = 0
         /\ \A t \in Threads : calls[t] = 0 /\ ret[t] = NoneV
    /\ \A t \in nested :
         /\ reentrant
         /\ winner = t
         /\ gate = "Running"
         /\ pc[t] \in {"call_once", "wait"}
         /\ pc[t] = "wait" => ~ENABLED ThreadStep(t)

\* The thread that took the Once waits in the inner call_once, and so does
\* another caller.
C12_Witness ==
    \E t \in nested :
        /\ pc[t] = "wait"
        /\ \E u \in Threads \ {t} : pc[u] = "wait"

\* A step of harness thread t inside the function it is running.
FnMoved(t) == fn[t] # NoFn /\ pc'[t] # pc[t]

\* A step in which harness thread t gets the reference from a deref that is
\* not dropped.
Obtains(t) == fn[t] # NoFn /\ pc[t] = "read" /\ ret'[t] # ret[t]

C15_CompiledOnceAcrossModules ==
    /\ [](counts[OuterRegex] <= 1 /\ counts[CompiledRegex] <= 1)
    /\ [](\A t \in Testers :
            (fn[t] = "lazy_static_external_mod" /\ pc[t] = "read") =>
               gates[OuterRegex] = "Done" /\ counts[OuterRegex] = 1)
    /\ [](\A t \in Testers :
            (fn[t] \in {"lazy_static_backref", "lazy_static_local"}
               /\ pc[t] = "read") =>
               gates[CompiledRegex] = "Done" /\ counts[CompiledRegex] = 1)
    /\ [][\A t \in Testers :
            Obtains(t) =>
               /\ fn[t] = "lazy_static_external_mod" =>
                    ret'[t] = Some(RegexId(OuterRegex, 1))
               /\ fn[t] \in {"lazy_static_backref", "lazy_static_local"} =>
                    ret'[t] = Some(RegexId(CompiledRegex, 1))]_vars

\* lazy_static_backref is blocked on the root static's Once while a direct
\* deref of the root static runs the initializer, after a call of
\* lazy_static_external has initialized the module's static.
C15_Witness ==
    \E t, u \in Testers :
        /\ fn[t] = "lazy_static_backref" /\ pc[t] = "wait"
        /\ fn[u] = "lazy_static_local"
        /\ pc[u] \in {"closure", "set", "setting", "complete"}
        /\ gates[OuterRegex] = "Done"
        /\ counts[OuterRegex] = 1

\* ------------------------------------------------------------------ C16
\* C16: each lazy static has its own Once and slot.  A step of a deref of
\* one static leaves the Once, the slot and the initializer count of every
\* other static unchanged; each initializer runs at most once; and an
\* initialized static holds the value its own initializer built.
C16_CellsIndependent ==
    /\ [](\A c \in Cells : counts[c] <= 1)
    /\ [](\A c \in Cells :
            gates[c] = "Done" => slots[c] = Some(RegexId(c, 1)))
    /\ [][\A t \in Testers :
            FnMoved(t) =>
               \A d \in Cells \ {CurCell(t)} :
                  /\ gates'[d] = gates[d]
                  /\ slots'[d] = slots[d]
                  /\ counts'[d] = counts[d]]_vars

\* The four statics in different states at once: one initialized, one in
\* the middle of its store, one whose initializer is running, one untouched.
C16_Witness ==
    /\ gates[CompiledRegex] = "Done"
    /\ gates[OnceCellRegex] = "Running" /\ slots[OnceCellRegex] = Torn
    /\ gates[InnerRegex] = "Running" /\ slots[InnerRegex] = NoneV
    /\ gates[OuterRegex] = "NotStarted"

====
